---------------------------- MODULE Spec2Model ----------------------------
(***************************************************************************)
(* Model of the particle simulation in src/scripts/quad_tree.py (Particle, *)
(* QuadTree) and src/scripts/collision_sys.py (CollisionSystem).           *)
(*                                                                         *)
(* Numbers.  The program computes with Python floats.  Here every          *)
(* coordinate, velocity, acceleration and radius is a fixed-point integer  *)
(* counting units of 1/SCALE; products and quotients are taken in the      *)
(* order the code takes them and rounded toward zero.  Time steps are kept *)
(* as exact fractions <<num, den>>.  pygame.Rect holds integers (pixels);  *)
(* it converts the float coordinates it is handed by truncation, as        *)
(* Python's int() does.                                                    *)
(*                                                                         *)
(* Three specifications share the variables:                               *)
(*   Spec      CollisionSystem: add_particle and the phases of update(dt)  *)
(*   SpecTree  a QuadTree driven as quad_tree.py's main() drives it        *)
(*   SpecOps   the particle-level operations applied to drawn particles    *)
(***************************************************************************)
EXTENDS Integers, Sequences, FiniteSets, TLC

VARIABLES
    particles,   \* the particle list (CollisionSystem.particles / main's particles)
    quad_tree,   \* the tree: path -> node, or NoTree for None
    width,       \* arena width  (CollisionSystem.width), pixels
    height,      \* arena height (CollisionSystem.height), pixels
    pc,          \* position inside update(dt): idle, gravity, check, integrate, walls
    substep,     \* substeps of the current update completed so far
    ticks,       \* update calls started so far
    dt,          \* the dt of the current update, <<num, den>>
    log,         \* observation: operations run so far in the current update / harness
    pre,         \* observation: the particle list before the last operation
    resolved,    \* observation: pairs resolveCollision was called on by the last check_collisions
    hist,        \* observation (SpecOps): particle lists after each operation, hist[1] the drawn one
    rets,        \* observation (SpecTree): return value of each particle's insert
    range,       \* the rectangle of the last query
    found        \* the result list of the last query

vars == <<particles, quad_tree, width, height, pc, substep, ticks, dt, log, pre,
          resolved, hist, rets, range, found>>

-----------------------------------------------------------------------------
(* Fixed-point arithmetic *)

\* units per 1.0 of a Python float; 1e-3 is the resolution at which eps = 1e-6
\* (a squared distance) is one unit
SCALE == 1000

Abs(a) == IF a < 0 THEN -a ELSE a

\* a / b rounded toward zero (b > 0)
TDiv(a, b) == IF a >= 0 THEN a \div b ELSE -((-a) \div b)

\* Python int() of a fixed-point value: truncation toward zero, in pixels
ToInt(a) == TDiv(a, SCALE)

\* np.sqrt of a squared fixed-point length, as a fixed-point length (rounded
\* down): the hundreds first, then the units
Sqrt(n) ==
    LET c == CHOOSE k \in 0..463 : k * k * 10000 <= n /\ (k + 1) * (k + 1) * 10000 > n
    IN CHOOSE r \in (100 * c)..(100 * c + 99) : r * r <= n /\ (r + 1) * (r + 1) > n

-----------------------------------------------------------------------------
(* pygame.Rect *)

Rect(x, y, w, h) == [x |-> x, y |-> y, w |-> w, h |-> h]

\* Rect.collidepoint(px, py) with float arguments: left/top edge inside,
\* right/bottom edge outside
collidepoint(r, px, py) ==
    LET ix == ToInt(px)
        iy == ToInt(py)
    IN /\ ix >= r.x /\ ix < r.x + r.w
       /\ iy >= r.y /\ iy < r.y + r.h

\* Rect.colliderect: a rectangle of zero width or height collides with nothing
colliderect(a, b) ==
    /\ a.w # 0 /\ a.h # 0 /\ b.w # 0 /\ b.h # 0
    /\ a.x < b.x + b.w /\ a.y < b.y + b.h
    /\ a.x + a.w > b.x /\ a.y + a.h > b.y

-----------------------------------------------------------------------------
(* Particle *)

DEFAULT_RADIUS == 3

\* Particle.__init__
Particle(x, y) ==
    [x |-> x, y |-> y, radius |-> DEFAULT_RADIUS * SCALE,
     lx |-> x, ly |-> y, ax |-> 0, ay |-> 0]

\* Particle.setVelocity(vx, vy, dt=1)
setVelocity(p, vx, vy) == [p EXCEPT !.lx = p.x - vx, !.ly = p.y - vy]

\* Particle.getVelocity
getVelocity(p) == <<p.x - p.lx, p.y - p.ly>>

\* Particle.accelerate
accelerate(p, ax, ay) == [p EXCEPT !.ax = p.ax + ax, !.ay = p.ay + ay]

\* VELOCITY_DAMPENING = 0.5, as the fraction <<num, den>>
VELOCITY_DAMPENING == <<1, 2>>

\* Particle.update(dt), dt = d[1] / d[2]:
\*   new = x + move + (accel - move * 0.5) * (dt * dt)
ParticleUpdate(p, d) ==
    LET mx == p.x - p.lx
        my == p.y - p.ly
        n2 == d[1] * d[1]
        d2 == d[2] * d[2]
        dn == VELOCITY_DAMPENING[1]
        dd == VELOCITY_DAMPENING[2]
        nx == p.x + mx + TDiv((dd * p.ax - dn * mx) * n2, dd * d2)
        ny == p.y + my + TDiv((dd * p.ay - dn * my) * n2, dd * d2)
    IN [p EXCEPT !.lx = p.x, !.ly = p.y, !.x = nx, !.y = ny, !.ax = 0, !.ay = 0]

-----------------------------------------------------------------------------
(* QuadTree: a tree is a function from paths to nodes; the root is at <<>>, *)
(* the children of the node at path are at Append(path, k), k = 1..4 for    *)
(* northeast, northwest, southeast, southwest.  A node's particle list      *)
(* holds indices into the particle list.                                   *)

NoTree == << >>

Root == << >>

\* QuadTree.__init__
Node(boundary, capacity) ==
    [boundary |-> boundary, particles |-> << >>, capacity |-> capacity,
     divided |-> FALSE]

NewTree(boundary, capacity) == (Root :> Node(boundary, capacity))

\* the four rectangles of QuadTree.subdivide, in the order NE, NW, SE, SW
ChildRects(b) ==
    LET hw == b.w \div 2
        hh == b.h \div 2
    IN << Rect(b.x + hw, b.y, hw, hh),
          Rect(b.x, b.y, hw, hh),
          Rect(b.x + hw, b.y + hh, hw, hh),
          Rect(b.x, b.y + hh, hw, hh) >>

\* QuadTree.subdivide
Subdivide(t, path) ==
    LET n  == t[path]
        cr == ChildRects(n.boundary)
        kids == [q \in {Append(path, k) : k \in 1..4} |->
                    Node(cr[q[Len(q)]], n.capacity)]
    IN [t EXCEPT ![path].divided = TRUE] @@ kids

\* the result of an insert call: the tree after it and the value returned
Result(t, ok) == [t |-> t, ok |-> ok]

\* a leaf that takes one particle more than its capacity
HasRoomLoose(n) == ~n.divided /\ Len(n.particles) <= n.capacity

\* a leaf with room: `not self.divided and len(self.particles) < self.capacity`
HasRoom(n) == ~n.divided /\ Len(n.particles) < n.capacity

\* an insert that forgets an existing particle no child accepted
KeepHereNot(t, path, id) == t

\* what insert does with an existing particle no child accepted
KeepHere(t, path, id) == [t EXCEPT ![path].particles = Append(@, id)]

RECURSIVE Insert(_, _, _, _)
RECURSIVE InsertChildren(_, _, _, _)
RECURSIVE Redistribute(_, _, _, _, _)

\* QuadTree.insert(particle) on the node at path; ps is the particle list,
\* id the particle's index
Insert(t, ps, path, id) ==
    LET n == t[path]
        inside == collidepoint(n.boundary, ps[id].x, ps[id].y)
    IN CASE ~inside -> Result(t, FALSE)
         [] inside /\ HasRoom(n) ->
                Result([t EXCEPT ![path].particles = Append(@, id)], TRUE)
         [] inside /\ ~HasRoom(n) /\ ~n.divided ->
                InsertChildren(
                    Redistribute([Subdivide(t, path) EXCEPT ![path].particles = << >>],
                                 ps, path, n.particles, 1),
                    ps, path, id)
         [] inside /\ ~HasRoom(n) /\ n.divided ->
                InsertChildren(t, ps, path, id)

\* `NE.insert(p) or NW.insert(p) or SE.insert(p) or SW.insert(p)`: each child
\* is tried on the tree the one before it left, until one returns True
InsertChildren(t, ps, path, id) ==
    LET r1 == Insert(t, ps, Append(path, 1), id)
        r2 == Insert(r1.t, ps, Append(path, 2), id)
        r3 == Insert(r2.t, ps, Append(path, 3), id)
        r4 == Insert(r3.t, ps, Append(path, 4), id)
    IN CASE r1.ok -> r1
         [] ~r1.ok /\ r2.ok -> r2
         [] ~r1.ok /\ ~r2.ok /\ r3.ok -> r3
         [] ~r1.ok /\ ~r2.ok /\ ~r3.ok -> r4

\* the loop `for p in existing` of insert, from existing[i] on: the tree after it
Redistribute(t, ps, path, existing, i) ==
    IF i > Len(existing) THEN t
    ELSE LET r == InsertChildren(t, ps, path, existing[i])
         IN IF r.ok
            THEN Redistribute(r.t, ps, path, existing, i + 1)
            ELSE Redistribute(KeepHere(r.t, path, existing[i]), ps, path, existing, i + 1)

\* e, evaluated once v has been: a loop finishes one pass before it starts
\* the next, as the code does
After(v, e) == IF v = v THEN e ELSE e

RECURSIVE Query(_, _, _, _)

\* QuadTree.query(range, found) on the node at path: what it appends to found,
\* in order (the node's own matches, then those of NE, NW, SE, SW)
Query(t, ps, path, rg) ==
    IF ~colliderect(t[path].boundary, rg) THEN << >>
    ELSE SelectSeq(t[path].particles, LAMBDA id : collidepoint(rg, ps[id].x, ps[id].y))
         \o (IF t[path].divided
             THEN Query(t, ps, Append(path, 1), rg) \o Query(t, ps, Append(path, 2), rg)
                  \o Query(t, ps, Append(path, 3), rg) \o Query(t, ps, Append(path, 4), rg)
             ELSE << >>)

-----------------------------------------------------------------------------
(* CollisionSystem *)

GRAVITY == 2000

ITERATIONS == 5

TREE_CAPACITY == 5

SPAWN_RADIUS == 6

\* restitution = 0.8, as the fraction <<num, den>>
restitution == <<4, 5>>

\* eps = 1e-6, a squared length, in squared fixed-point units
eps == (SCALE * SCALE) \div 1000000

\* sub_dt = dt / self.iterations
SubDt(d) == <<d[1], d[2] * ITERATIONS>>

RECURSIVE InsertAll(_, _, _)
\* the loop of set_up_quad_tree, from particle i on
InsertAll(t, ps, i) ==
    IF i > Len(ps) THEN t
    ELSE LET t1 == Insert(t, ps, Root, i).t
         IN After(t1, InsertAll(t1, ps, i + 1))

\* CollisionSystem.set_up_quad_tree: the tree it assigns to self.quad_tree
set_up_quad_tree(ps, w, h) ==
    InsertAll(NewTree(Rect(0, 0, w, h), TREE_CAPACITY), ps, 1)

\* CollisionSystem.create_particle(pos, dt=1.0) with the drawn jitter (vx, vy)
create_particle(px, py, vx, vy) ==
    setVelocity([Particle(px, py) EXCEPT !.radius = SPAWN_RADIUS * SCALE], vx, vy)

\* -v * restitution
Reflect(v) == TDiv((-v) * restitution[1], restitution[2])

\* a left/right branch that stops the centre, not the edge, at the right wall
WallXCentre(p, w) ==
    IF p.x - p.radius < 0
    THEN LET q == [p EXCEPT !.x = p.radius]
             v == getVelocity(q)
         IN setVelocity(q, Reflect(v[1]), v[2])
    ELSE IF p.x + p.radius > w * SCALE
    THEN LET q == [p EXCEPT !.x = w * SCALE]
             v == getVelocity(q)
         IN setVelocity(q, Reflect(v[1]), v[2])
    ELSE p

\* the left/right branch of wall_collisions for one particle
WallX(p, w) ==
    IF p.x - p.radius < 0
    THEN LET q == [p EXCEPT !.x = p.radius]
             v == getVelocity(q)
         IN setVelocity(q, Reflect(v[1]), v[2])
    ELSE IF p.x + p.radius > w * SCALE
    THEN LET q == [p EXCEPT !.x = w * SCALE - p.radius]
             v == getVelocity(q)
         IN setVelocity(q, Reflect(v[1]), v[2])
    ELSE p

\* the bottom/top branch of wall_collisions for one particle
WallY(p, h) ==
    IF p.y - p.radius < 0
    THEN LET q == [p EXCEPT !.y = p.radius]
             v == getVelocity(q)
         IN setVelocity(q, v[1], Reflect(v[2]))
    ELSE IF p.y + p.radius > h * SCALE
    THEN LET q == [p EXCEPT !.y = h * SCALE - p.radius]
             v == getVelocity(q)
         IN setVelocity(q, v[1], Reflect(v[2]))
    ELSE p

\* CollisionSystem.wall_collisions
wall_collisions(ps, w, h) == [i \in 1..Len(ps) |-> WallY(WallX(ps[i], w), h)]

\* the guard of resolveCollision: dist2 < min_dist2 and dist2 > eps
Overlapping(dist2, min_dist2) == dist2 < min_dist2 /\ dist2 > eps

\* a resolveCollision in which each particle moves the whole overlap
DeltaWhole(overlap) == overlap

\* delta = resp_coefficient * 0.5 * overlap, resp_coefficient = 1.0
Delta(overlap) == TDiv(overlap, 2)

\* CollisionSystem.resolveCollision(p1, p2) on particles i and j of ps; the
\* normal (nx, ny) = (dx / dist, dy / dist) is kept as the fractions
\* <<dx, dist>>, <<dy, dist>> and rounded once, in nx * delta and ny * delta
resolveCollision(ps, i, j) ==
    LET p1 == ps[i]
        p2 == ps[j]
        dx == p2.x - p1.x
        dy == p2.y - p1.y
        dist2 == dx * dx + dy * dy
        min_dist == p1.radius + p2.radius
        min_dist2 == min_dist * min_dist
    IN IF Overlapping(dist2, min_dist2)
       THEN LET dist == Sqrt(dist2)
                overlap == min_dist - dist
                delta == Delta(overlap)
                nx == <<dx, dist>>
                ny == <<dy, dist>>
                sx == TDiv(nx[1] * delta, nx[2])
                sy == TDiv(ny[1] * delta, ny[2])
            IN [ps EXCEPT ![i].x = p1.x - sx, ![i].y = p1.y - sy,
                          ![j].x = p2.x + sx, ![j].y = p2.y + sy]
       ELSE ps

\* the query rectangle check_collisions builds around a particle
QueryBox(p) ==
    Rect(ToInt(p.x - p.radius), ToInt(p.y - p.radius),
         ToInt(p.radius * 2), ToInt(p.radius * 2))

\* a check_collisions in progress: the particle list and the pairs resolved so far
Checked(ps, pairs) == [ps |-> ps, pairs |-> pairs]

\* one pass of the loop `for other in found` for particle i
ResolveOne(c, i, other) ==
    IF other # i
    THEN Checked(resolveCollision(c.ps, i, other), c.pairs \cup {<<i, other>>})
    ELSE c

RECURSIVE ResolveFound(_, _, _, _)
\* the loop `for other in found` for particle i, from fnd[k] on
ResolveFound(c, i, fnd, k) ==
    IF k > Len(fnd) THEN c
    ELSE LET c1 == ResolveOne(c, i, fnd[k])
         IN After(c1, ResolveFound(c1, i, fnd, k + 1))

RECURSIVE CheckFrom(_, _, _)
\* the loop `for particle in self.particles` of check_collisions, from particle i on
CheckFrom(t, c, i) ==
    IF i > Len(c.ps) THEN c
    ELSE CheckFrom(t, ResolveFound(c, i, Query(t, c.ps, Root, QueryBox(c.ps[i])), 1), i + 1)

\* CollisionSystem.check_collisions
check_collisions(t, ps) ==
    IF t = NoTree THEN Checked(ps, {}) ELSE CheckFrom(t, Checked(ps, {}), 1)

\* CollisionSystem.update_particles(dt)
update_particles(ps, sd) == [i \in 1..Len(ps) |-> ParticleUpdate(ps[i], sd)]

\* an apply_gravity that accelerates by gravity alone
apply_gravity_plain(ps, sd) ==
    [i \in 1..Len(ps) |-> accelerate(ps[i], 0, GRAVITY * SCALE)]

\* CollisionSystem.apply_gravity(dt): accelerate(0, self.gravity * dt)
apply_gravity(ps, sd) ==
    [i \in 1..Len(ps) |-> accelerate(ps[i], 0, TDiv(GRAVITY * SCALE * sd[1], sd[2]))]

-----------------------------------------------------------------------------
(* Spec: the CollisionSystem as collision_sys.py's main() drives it.  Each  *)
(* phase of update(dt) is one step; pc is the position inside update.      *)

MaxParticles == 6

MaxTicks == 1

\* the arenas CollisionSystem is constructed with, <<width, height>> in pixels
Arenas == {<<20, 14>>}

\* frame times dt = num / den
Dts == {<<1, 10>>, <<1, 2>>}

\* mouse positions (pixels) and velocity jitters (fixed-point) of create_particle
Spawns == {<<7, 7, 0, 0>>, <<14, 8, -500, -500>>}

Entry(op, arg) == <<op, arg>>

Init ==
    /\ particles = << >>
    /\ quad_tree = NoTree
    /\ \E a \in Arenas : width = a[1] /\ height = a[2]
    /\ pc = "idle"
    /\ substep = 0
    /\ ticks = 0
    /\ dt = <<0, 1>>
    /\ log = << >>
    /\ pre = << >>
    /\ resolved = {}
    /\ hist = << >>
    /\ rets = << >>
    /\ range = Rect(0, 0, 0, 0)
    /\ found = << >>

\* CollisionSystem.add_particle(particle)
add_particle(ps, t, p) ==
    LET ps1 == Append(ps, p)
    IN [ps |-> ps1,
        t |-> IF t # NoTree THEN Insert(t, ps1, Root, Len(ps1)).t ELSE t]

\* main(): p = cs.create_particle(mouse_pos, dt=1.0); cs.add_particle(p)
AddParticle ==
    /\ pc = "idle"
    /\ Len(particles) < MaxParticles
    /\ \E s \in Spawns :
          LET r == add_particle(particles, quad_tree,
                                create_particle(s[1] * SCALE, s[2] * SCALE, s[3], s[4]))
          IN /\ particles' = r.ps
             /\ quad_tree' = r.t
    /\ UNCHANGED <<width, height, pc, substep, ticks, dt, log, pre, resolved,
                   hist, rets, range, found>>

\* main(): cs.set_up_quad_tree() after construction
MainSetUp ==
    /\ pc = "idle"
    /\ ticks = 0
    /\ quad_tree = NoTree
    /\ quad_tree' = set_up_quad_tree(particles, width, height)
    /\ UNCHANGED <<particles, width, height, pc, substep, ticks, dt, log, pre,
                   resolved, hist, rets, range, found>>

\* update(dt): self.set_up_quad_tree(); sub_dt = dt / self.iterations
UpdateStart ==
    /\ pc = "idle"
    /\ ticks < MaxTicks
    /\ \E d \in Dts : dt' = d
    /\ quad_tree' = set_up_quad_tree(particles, width, height)
    /\ pc' = "gravity"
    /\ substep' = 0
    /\ ticks' = ticks + 1
    /\ log' = << Entry("set_up_quad_tree", << >>) >>
    /\ pre' = particles
    /\ UNCHANGED <<particles, width, height, resolved, hist, rets, range, found>>

\* update(dt): self.apply_gravity(sub_dt)
ApplyGravity ==
    /\ pc = "gravity"
    /\ particles' = apply_gravity(particles, SubDt(dt))
    /\ pc' = "check"
    /\ log' = Append(log, Entry("apply_gravity", SubDt(dt)))
    /\ pre' = particles
    /\ UNCHANGED <<quad_tree, width, height, substep, ticks, dt, resolved, hist,
                   rets, range, found>>

\* update(dt): self.check_collisions()
CheckCollisions ==
    /\ pc = "check"
    /\ LET c == check_collisions(quad_tree, particles)
       IN /\ particles' = c.ps
          /\ resolved' = c.pairs
    /\ pc' = "integrate"
    /\ log' = Append(log, Entry("check_collisions", << >>))
    /\ pre' = particles
    /\ UNCHANGED <<quad_tree, width, height, substep, ticks, dt, hist, rets, 
                   range, found>>

\* update(dt): self.update_particles(sub_dt)
UpdateParticles ==
    /\ pc = "integrate"
    /\ particles' = update_particles(particles, SubDt(dt))
    /\ pc' = "walls"
    /\ log' = Append(log, Entry("update_particles", SubDt(dt)))
    /\ pre' = particles
    /\ UNCHANGED <<quad_tree, width, height, substep, ticks, dt, resolved, hist,
                   rets, range, found>>

\* a pass of the loop of update(dt) that ends by rebuilding the tree
WallCollisionsRebuild ==
    /\ pc = "walls"
    /\ particles' = wall_collisions(particles, width, height)
    /\ quad_tree' = set_up_quad_tree(particles', width, height)
    /\ substep' = substep + 1
    /\ pc' = IF substep + 1 < ITERATIONS THEN "gravity" ELSE "idle"
    /\ log' = Append(log, Entry("wall_collisions", << >>))
    /\ pre' = particles
    /\ UNCHANGED <<width, height, ticks, dt, resolved, hist, rets, range, found>>

\* update(dt): self.wall_collisions(), the end of one pass of `for _ in range(self.iterations)`
WallCollisions ==
    /\ pc = "walls"
    /\ particles' = wall_collisions(particles, width, height)
    /\ substep' = substep + 1
    /\ pc' = IF substep + 1 < ITERATIONS THEN "gravity" ELSE "idle"
    /\ log' = Append(log, Entry("wall_collisions", << >>))
    /\ pre' = particles
    /\ UNCHANGED <<quad_tree, width, height, ticks, dt, resolved, hist, rets, 
                   range, found>>

Next ==
    \/ AddParticle
    \/ MainSetUp
    \/ UpdateStart
    \/ ApplyGravity
    \/ CheckCollisions
    \/ UpdateParticles
    \/ WallCollisions

Spec == Init /\ [][Next]_vars

-----------------------------------------------------------------------------
(* SpecTree: a QuadTree driven as quad_tree.py's main() drives it: a tree   *)
(* over a root rectangle, particles appended to a list and inserted, and    *)
(* range queries.                                                          *)

MaxTreeParticles == 3

\* root rectangles (pixels) and capacities the tree is constructed with
RootRects == {Rect(0, 0, 4, 4), Rect(0, 0, 5, 3), Rect(1, 1, 2, 2)}

Capacities == {1, 2}

\* particle positions, fixed-point
TreePoints ==
    {<<0, 0>>, <<1000, 1000>>, <<1500, 1000>>, <<2000, 2000>>, <<3000, 3000>>,
     <<4000, 2000>>, <<4000, 0>>, <<5000, 5000>>}

\* query rectangles (pixels)
Ranges == {Rect(0, 0, 5, 5), Rect(1, 1, 2, 2), Rect(3, 2, 2, 2), Rect(0, 0, 1, 1)}

NoRange == Rect(0, 0, 0, 0)

InitTree ==
    /\ particles = << >>
    /\ \E b \in RootRects : \E c \in Capacities : quad_tree = NewTree(b, c)
    /\ width = 0
    /\ height = 0
    /\ pc = "tree"
    /\ substep = 0
    /\ ticks = 0
    /\ dt = <<0, 1>>
    /\ log = << >>
    /\ pre = << >>
    /\ resolved = {}
    /\ hist = << >>
    /\ rets = << >>
    /\ range = NoRange
    /\ found = << >>

\* main(): particle = Particle(mouse_x, mouse_y); particles.append(particle);
\* quad_tree.insert(particle)
TreeInsert ==
    /\ Len(particles) < MaxTreeParticles
    /\ \E pt \in TreePoints :
          LET ps == Append(particles, Particle(pt[1], pt[2]))
              r == Insert(quad_tree, ps, Root, Len(ps))
          IN /\ particles' = ps
             /\ quad_tree' = r.t
             /\ rets' = Append(rets, r.ok)
    /\ range' = NoRange
    /\ found' = << >>
    /\ UNCHANGED <<width, height, pc, substep, ticks, dt, log, pre, resolved, hist>>

\* main(): found = []; quad_tree.query(selector, found)
TreeQuery ==
    /\ \E rg \in Ranges :
          /\ range' = rg
          /\ found' = Query(quad_tree, particles, Root, rg)
    /\ UNCHANGED <<particles, quad_tree, width, height, pc, substep, ticks, dt, log,
                   pre, resolved, hist, rets>>

NextTree == TreeInsert \/ TreeQuery

SpecTree == InitTree /\ [][NextTree]_vars

\* the paths of the nodes of a tree
Paths(t) == DOMAIN t

\* the number of times id occurs in the list s
Count(s, id) == Cardinality({k \in 1..Len(s) : s[k] = id})

\* the number of nodes of the tree that hold id, counted with repetition
Stored(t, id) ==
    LET holders == {q \in Paths(t) : Count(t[q].particles, id) > 0}
    IN IF holders = {} THEN 0
       ELSE IF Cardinality(holders) > 1 THEN Cardinality(holders)
       ELSE Count(t[CHOOSE q \in holders : TRUE].particles, id)

\* the integer points of a rectangle, fixed-point
PointsOf(b) ==
    {<<x * SCALE, y * SCALE>> : x \in b.x..(b.x + b.w - 1), y \in b.y..(b.y + b.h - 1)}

\* the children of the node at path whose boundary holds the point pt
Claiming(t, path, pt) ==
    {k \in 1..4 : collidepoint(t[Append(path, k)].boundary, pt[1], pt[2])}

RECURSIVE Halvings(_, _)
\* how many times a w x h rectangle can be floor-halved before a side is 0
Halvings(w, h) == IF w = 0 \/ h = 0 THEN 0 ELSE 1 + Halvings(w \div 2, h \div 2)

\* the depth of the deepest node of the tree
TreeDepth(t) == CHOOSE d \in 0..8 : (\E q \in Paths(t) : Len(q) = d) /\ (\A q \in Paths(t) : Len(q) <= d)

InsideRoot(t, p) == collidepoint(t[Root].boundary, p.x, p.y)

\* C1: after a query, every particle held by the tree's particle list whose
\* position lies inside both the root boundary and the query rectangle (both
\* half-open) is in the result exactly once.
C1_QueryComplete ==
    range # NoRange =>
        \A i \in 1..Len(particles) :
            (InsideRoot(quad_tree, particles[i]) /\ collidepoint(range, particles[i].x, particles[i].y))
                => Count(found, i) = 1

\* C7: the four children of every divided node are non-overlapping and
\* together cover the parent, so every point inside the parent is inside
\* exactly one child.
C7_ChildrenPartition ==
    \A q \in Paths(quad_tree) :
        quad_tree[q].divided =>
            \A pt \in PointsOf(quad_tree[q].boundary) : Cardinality(Claiming(quad_tree, q, pt)) = 1

\* C4: an undivided node never holds more particles than its capacity; a
\* divided node holds only particles that no child boundary contains; no
\* particle is stored more than once in the tree.
C4_CapacityInvariant ==
    /\ \A q \in Paths(quad_tree) :
          LET n == quad_tree[q]
          IN IF n.divided
             THEN \A k \in 1..Len(n.particles) :
                      Claiming(quad_tree, q, <<particles[n.particles[k]].x, particles[n.particles[k]].y>>) = {}
             ELSE Len(n.particles) <= n.capacity
    /\ \A i \in 1..Len(particles) : Stored(quad_tree, i) <= 1

\* a divided node keeps a particle its children refused, and a leaf is full
C4_Witness ==
    /\ \E q \in Paths(quad_tree) : quad_tree[q].divided /\ quad_tree[q].particles # << >>
    /\ \E q \in Paths(quad_tree) : ~quad_tree[q].divided /\ Len(quad_tree[q].particles) = quad_tree[q].capacity

\* C10: insert always returns: the tree is never deeper than the number of
\* floor-halvings of the root's sides, an accepted particle is stored exactly
\* once and a refused one nowhere, so particles already in the tree are kept
\* when the new one is refused.
C10_InsertTerminates ==
    /\ TreeDepth(quad_tree) <= Halvings(quad_tree[Root].boundary.w, quad_tree[Root].boundary.h)
    /\ Len(rets) = Len(particles)
    /\ \A i \in 1..Len(particles) : Stored(quad_tree, i) = (IF rets[i] THEN 1 ELSE 0)

\* more than capacity particles at one position inside the root: the last is
\* refused, the earlier ones are kept in a divided node, the tree is as deep
\* as it can be
C10_Witness ==
    /\ Len(particles) = quad_tree[Root].capacity + 1
    /\ \A i \in 1..Len(particles) :
          /\ particles[i].x = particles[1].x
          /\ particles[i].y = particles[1].y
          /\ InsideRoot(quad_tree, particles[i])
    /\ ~rets[Len(rets)]
    /\ \A i \in 1..(Len(particles) - 1) : rets[i]
    /\ \E q \in Paths(quad_tree) : quad_tree[q].divided /\ Len(quad_tree[q].particles) = quad_tree[q].capacity
    /\ TreeDepth(quad_tree) = Halvings(quad_tree[Root].boundary.w, quad_tree[Root].boundary.h)

-----------------------------------------------------------------------------
(* SpecOps: the operations of CollisionSystem applied one at a time, in any *)
(* order, to a system holding two particles; hist keeps the particle list   *)
(* before each operation and log the operations.                            *)

MaxOps == 2

\* a particle at (x, y) with the given radius and previous position
Placed(x, y, r, lx, ly) ==
    [Particle(x, y) EXCEPT !.radius = r, !.lx = lx, !.ly = ly]

\* a particle at rest
AtRest(x, y, r) == Placed(x, y, r, x, y)

Scene(w, h, p, q) == [w |-> w, h |-> h, ps |-> <<p, q>>]

\* the systems the operations start from: arena and two particles
Scenes ==
    { Scene(200, 200, AtRest(100000, 100000, 5000), AtRest(106000, 100000, 5000)),
      Scene(200, 200, AtRest(100000, 100000, 5000), AtRest(103000, 104000, 5000)),
      Scene(200, 200, AtRest(100000, 100000, 5000), AtRest(100000, 100000, 5000)),
      Scene(200, 200, AtRest(100000, 100000, 5000), AtRest(100001, 100000, 5000)),
      Scene(200, 200, AtRest(100000, 100000, 5000), AtRest(107000, 103000, 3000)),
      Scene(200, 200, Placed(1000, 10000, 3000, 3000, 10000), Placed(-2000, 20000, 3000, 0, 20000)),
      Scene(200, 200, Placed(199000, 199000, 3000, 197000, 198000), AtRest(215000, 215000, 6000)),
      Scene(8, 8, AtRest(4000, 4000, 5000), AtRest(5000, 6000, 3000)),
      Scene(10, 10, AtRest(12000, -3000, 5000), AtRest(5000, 5000, 5000)) }

\* the substep lengths, as fractions <<num, den>> of a second
SubDts == {<<1, 50>>, <<1, 10>>}

InitOps ==
    /\ \E sc \in Scenes :
          /\ particles = sc.ps
          /\ width = sc.w
          /\ height = sc.h
    /\ quad_tree = NoTree
    /\ pc = "ops"
    /\ substep = 0
    /\ ticks = 0
    /\ dt = <<0, 1>>
    /\ log = << >>
    /\ pre = << >>
    /\ resolved = {}
    /\ hist = << >>
    /\ rets = << >>
    /\ range = NoRange
    /\ found = << >>

\* what every operation of SpecOps does besides changing the particles
Logged(op, arg) ==
    /\ Len(log) < MaxOps
    /\ log' = Append(log, Entry(op, arg))
    /\ hist' = Append(hist, particles)
    /\ UNCHANGED <<quad_tree, width, height, pc, substep, ticks, dt, pre, resolved,
                   rets, range, found>>

OpGravity ==
    \E sd \in SubDts :
        /\ particles' = apply_gravity(particles, sd)
        /\ Logged("apply_gravity", sd)

OpUpdate ==
    \E sd \in SubDts :
        /\ particles' = update_particles(particles, sd)
        /\ Logged("update_particles", sd)

OpWalls ==
    /\ particles' = wall_collisions(particles, width, height)
    /\ Logged("wall_collisions", << >>)

OpResolve ==
    /\ particles' = resolveCollision(particles, 1, 2)
    /\ Logged("resolveCollision", << >>)

NextOps == OpGravity \/ OpUpdate \/ OpWalls \/ OpResolve

SpecOps == InitOps /\ [][NextOps]_vars

\* the particle list before operation k; after the last one for k = Len(log) + 1
StateAt(k) == IF k <= Len(hist) THEN hist[k] ELSE particles

Dist2(p, q) == (q.x - p.x) * (q.x - p.x) + (q.y - p.y) * (q.y - p.y)

\* the operations of the log that are op
Steps(op) == {k \in 1..Len(log) : log[k][1] = op}

\* particle p's diameter fits in the arena
Fits(p) == 2 * p.radius <= width * SCALE /\ 2 * p.radius <= height * SCALE

\* C2: a particle moving with velocity (-v, 0), v > 0, whose left edge has
\* crossed x = 0 has velocity exactly (0.8 * v, 0) after wall_collisions.
C2_LeftWallReflection ==
    \A k \in Steps("wall_collisions") : \A i \in 1..Len(particles) :
        LET p == StateAt(k)[i]
            q == StateAt(k + 1)[i]
            v == getVelocity(p)
        IN (/\ v[1] < 0
            /\ v[2] = 0
            /\ p.x - p.radius < 0
            /\ p.y - p.radius >= 0
            /\ p.y + p.radius <= height * SCALE)
           => getVelocity(q)[1] * restitution[2] = (-v[1]) * restitution[1] /\ getVelocity(q)[2] = 0

\* C3: after wall_collisions every particle whose diameter fits in the arena
\* has radius <= x <= width - radius and radius <= y <= height - radius,
\* wherever it was before.
C3_WallContainment ==
    \A k \in Steps("wall_collisions") : \A i \in 1..Len(particles) :
        LET q == StateAt(k + 1)[i]
        IN Fits(q) =>
            /\ q.radius <= q.x
            /\ q.x <= width * SCALE - q.radius
            /\ q.radius <= q.y
            /\ q.y <= height * SCALE - q.radius

\* wall_collisions has brought back a fitting particle that was beyond the
\* right wall and above the top one
C3_Witness ==
    \E k \in Steps("wall_collisions") : \E i \in 1..Len(particles) :
        LET p == StateAt(k)[i]
            q == StateAt(k + 1)[i]
        IN /\ Fits(p)
           /\ p.x + p.radius > width * SCALE
           /\ p.y - p.radius < 0
           /\ q.x = width * SCALE - q.radius
           /\ q.y = q.radius

\* p and q, centres d2 apart (squared), are min_dist apart up to rounding
Touching(d2, min_dist) ==
    (min_dist - 3) * (min_dist - 3) <= d2 /\ d2 <= (min_dist + 3) * (min_dist + 3)

\* the previous position and the accumulated acceleration of p are those of q
SameHistory(p, q) == p.lx = q.lx /\ p.ly = q.ly /\ p.ax = q.ax /\ p.ay = q.ay

\* what resolveCollision did to the pair (a, b), now (a2, b2), when the pairs
\* it separates are those with low < distance^2 < (radius_a + radius_b)^2
Separates(a, b, a2, b2, low) ==
    LET d2 == Dist2(a, b)
        min_dist == a.radius + b.radius
    IN /\ SameHistory(a2, a)
       /\ SameHistory(b2, b)
       /\ d2 = 0 => (a2 = a /\ b2 = b)
       /\ (low < d2 /\ d2 < min_dist * min_dist) =>
             /\ a2.x - a.x = -(b2.x - b.x)
             /\ a2.y - a.y = -(b2.y - b.y)
             /\ Abs((a.x - a2.x) * (b.y - a.y) - (a.y - a2.y) * (b.x - a.x)) <= Abs(b.x - a.x) + Abs(b.y - a.y)
             /\ Touching(Dist2(a2, b2), min_dist)
       /\ (a = AtRest(100000, 100000, 5000) /\ b = AtRest(106000, 100000, 5000)) =>
             /\ a2 = [a EXCEPT !.x = 98000]
             /\ b2 = [b EXCEPT !.x = 108000]

DropsFromRest(k, i) ==
    /\ k + 1 <= Len(log)
    /\ log[k][1] = "apply_gravity"
    /\ log[k + 1] = Entry("update_particles", log[k][2])
    /\ getVelocity(StateAt(k)[i]) = <<0, 0>>
    /\ StateAt(k)[i].ax = 0
    /\ StateAt(k)[i].ay = 0

\* what one substep from rest does to particle p, now q, when it moves y by
\* gravity * sub_dt^e, sub_dt = sd[1] / sd[2]
Dropped(p, q, sd, e) ==
    /\ q.lx = p.x
    /\ q.ly = p.y
    /\ q.ax = 0
    /\ q.ay = 0
    /\ q.x = p.x
    /\ (q.y - p.y) * sd[2] ^ e = GRAVITY * SCALE * sd[1] ^ e

\* C6 as stated: one substep from rest leaves previous_position at the start,
\* resets the acceleration, leaves x and increases y by gravity * sub_dt^2.
C6_AsStated ==
    \A k \in 1..Len(log) : \A i \in 1..Len(particles) :
        DropsFromRest(k, i) => Dropped(StateAt(k)[i], StateAt(k + 2)[i], log[k][2], 2)

\* C6 amended: one substep from rest leaves previous_position at the start,
\* resets the acceleration, leaves x and increases y by gravity * sub_dt^3.
C6_GravitySubstep ==
    \A k \in 1..Len(log) : \A i \in 1..Len(particles) :
        DropsFromRest(k, i) => Dropped(StateAt(k)[i], StateAt(k + 2)[i], log[k][2], 3)

\* a particle has dropped from rest for one substep of 0.02 s
C6_Witness ==
    \E k \in 1..Len(log) : \E i \in 1..Len(particles) :
        /\ DropsFromRest(k, i)
        /\ log[k][2] = <<1, 50>>
        /\ StateAt(k + 2)[i].y > StateAt(k)[i].y

-----------------------------------------------------------------------------
(* Claims about update(dt), checked under Spec.                             *)

\* the operations of one substep of the current tick, in order
Substep ==
    << Entry("apply_gravity", <<dt[1], dt[2] * 5>>),
       Entry("check_collisions", << >>),
       Entry("update_particles", <<dt[1], dt[2] * 5>>),
       Entry("wall_collisions", << >>) >>

\* how many operations of the current substep have run
Done ==
    CASE pc = "check" -> 1
      [] pc = "integrate" -> 2
      [] pc = "walls" -> 3
      [] OTHER -> 0

\* one rebuild, then the substeps run so far
Pipeline ==
    << Entry("set_up_quad_tree", << >>) >>
        \o [k \in 1..(4 * substep + Done) |-> Substep[((k - 1) % 4) + 1]]

\* every particle the tree holds is held once, in a node whose boundary
\* contains its position
Fresh(t, ps) ==
    /\ \A q \in Paths(t) : \A k \in 1..Len(t[q].particles) :
          /\ t[q].particles[k] \in 1..Len(ps)
          /\ collidepoint(t[q].boundary, ps[t[q].particles[k]].x, ps[t[q].particles[k]].y)
    /\ \A i \in 1..Len(ps) : Stored(t, i) <= 1

InUpdate == pc \in {"gravity", "check", "integrate", "walls"}

\* the operations of the running or last update(dt) are the pipeline
PipelineOrder ==
    ticks > 0 =>
        /\ log = Pipeline
        /\ substep \in 0..5
        /\ InUpdate <=> substep < 5

\* update(dt) starts by replacing the tree with one built from the particles
\* alone, and nothing inside update(dt) changes the tree afterwards
PipelineTree ==
    /\ InUpdate => quad_tree' = quad_tree
    /\ (~InUpdate /\ InUpdate') =>
          /\ quad_tree' = InsertAll(NewTree(Rect(0, 0, width, height), 5), particles, 1)
          /\ Fresh(quad_tree', particles)
          /\ particles' = particles
    /\ (~InUpdate /\ ~InUpdate') => log' = log

InArena(p) == collidepoint(Rect(0, 0, width, height), p.x, p.y)

\* the circles of p and q overlap: 0 < distance < radius_p + radius_q
CirclesOverlap(p, q) ==
    0 < Dist2(p, q) /\ Dist2(p, q) < (p.radius + q.radius) * (p.radius + q.radius)

\* C9: in the first check_collisions of a tick, with all particles inside the
\* arena, resolveCollision is called at least once on every two distinct
\* particles whose circles overlap.
C9_BroadPhaseComplete ==
    (/\ pc = "integrate"
     /\ substep = 0
     /\ \A i \in 1..Len(pre) : InArena(pre[i]))
    => \A i, j \in 1..Len(pre) :
          (i # j /\ CirclesOverlap(pre[i], pre[j]))
              => (<<i, j>> \in resolved \/ <<j, i>> \in resolved)

=============================================================================
